---- MODULE Spec2Model ----
(***************************************************************************)
(* Model of the tei2spacy pipeline notebook (tei2spacy-pipeline.ipynb).    *)
(*                                                                         *)
(* Two levels are modelled:                                                *)
(*   - the per-document transform tei2spacy_simple (flattening of the      *)
(*     <reg> elements, tokenization, projection of the TEI character       *)
(*     intervals onto tokens, merging of labelled tokens into entities),   *)
(*     stepped statement by statement under SpecDoc;                       *)
(*   - the notebook's batch run over the corpus directory and the          *)
(*     serialized DocBin (load, filter, process, add, to_disk), under Spec.*)
(* Offsets and token indices are 0-based as in Python; sequences are       *)
(* 1-based, so the character at offset k of a text t is t[k+1].            *)
(***************************************************************************)
EXTENDS Integers, Sequences, FiniteSets, TLC

(***************************************************************************)
(* Bounds of the model.                                                    *)
(***************************************************************************)
MaxTextLen == 4      \* longest flattened text explored
MaxNodeLen == 2      \* longest text of one child node of a <reg>
MaxChunks == 2       \* most annotation elements per document
MaxTokens == 3       \* most tokens the tokenizer returns
MaxFiles == 2        \* most files in the corpus directory

Chars == {"a", " "}
NodeNames == {"str", "persName", "placeName", "hi"}

NoTag == "None"

SeqsUpTo(S, n) == UNION {[1..k -> S] : k \in 0..n}

Range(s) == {s[k] : k \in 1..Len(s)}

(***************************************************************************)
(* textentlib.utils.tei_element_to_ner_label: TEI tag name -> NER label.   *)
(***************************************************************************)
tei_element_to_ner_label(name) ==
    IF name = "persName" THEN "PER" ELSE "LOC"

(***************************************************************************)
(* chunks[(offset_start, offset_end)] = ner_tag on a Python dict, kept as  *)
(* the sequence of its items in insertion order: assigning to a key that   *)
(* is present replaces the value in place, a new key goes to the end.      *)
(***************************************************************************)
DictSet(d, start, end, tag) ==
    IF \E k \in 1..Len(d) : d[k].start = start /\ d[k].end = end
    THEN [k \in 1..Len(d) |->
            IF d[k].start = start /\ d[k].end = end
            THEN [start |-> start, end |-> end, tag |-> tag]
            ELSE d[k]]
    ELSE Append(d, [start |-> start, end |-> end, tag |-> tag])

(***************************************************************************)
(* One iteration of `for node in elem.contents` on the flattener state     *)
(* st = [output_text, chunks]; node = [name, text], name "str" for a       *)
(* NavigableString.                                                        *)
(***************************************************************************)
\* FlattenNode reading offset_start after the text has been appended
FlattenNodeLateStart(st, node) ==
    IF node.name = "str"
    THEN [st EXCEPT !.output_text = @ \o node.text]
    ELSE IF node.name = "persName" \/ node.name = "placeName"
         THEN LET new_text == st.output_text \o node.text
                  offset_start == Len(new_text)
                  offset_end == Len(new_text)
                  ner_tag == tei_element_to_ner_label(node.name)
              IN  [output_text |-> new_text,
                   chunks |-> DictSet(st.chunks, offset_start, offset_end, ner_tag)]
         ELSE [st EXCEPT !.output_text = @ \o node.text]

FlattenNode(st, node) ==
    IF node.name = "str"
    THEN [st EXCEPT !.output_text = @ \o node.text]
    ELSE IF node.name = "persName" \/ node.name = "placeName"
         THEN LET offset_start == Len(st.output_text)
                  new_text == st.output_text \o node.text
                  offset_end == Len(new_text)
                  ner_tag == tei_element_to_ner_label(node.name)
              IN  [output_text |-> new_text,
                   chunks |-> DictSet(st.chunks, offset_start, offset_end, ner_tag)]
         ELSE [st EXCEPT !.output_text = @ \o node.text]

\* output_text += " " after the children of one <reg>
FlattenEndReg(st) == [st EXCEPT !.output_text = @ \o <<" ">>]

RECURSIVE FlattenContents(_, _)
FlattenContents(st, contents) ==
    IF contents = <<>> THEN st
    ELSE FlattenContents(FlattenNode(st, Head(contents)), Tail(contents))

RECURSIVE FlattenRegs(_, _)
FlattenRegs(st, regs) ==
    IF regs = <<>> THEN st
    ELSE FlattenRegs(FlattenEndReg(FlattenContents(st, Head(regs))), Tail(regs))

FlattenInit == [output_text |-> <<>>, chunks |-> <<>>]

(***************************************************************************)
(* get_tag_from_char_index: the tag of the first item of the dict, in      *)
(* insertion order, whose interval contains [char_start, char_end).        *)
(***************************************************************************)
\* get_tag_from_char_index with a strict comparison on the interval start
RECURSIVE get_tag_strict_start(_, _, _)
get_tag_strict_start(char_start, char_end, ents) ==
    IF ents = <<>> THEN NoTag
    ELSE IF Head(ents).start < char_start /\ Head(ents).end >= char_end
         THEN Head(ents).tag
         ELSE get_tag_strict_start(char_start, char_end, Tail(ents))

RECURSIVE get_tag_from_char_index(_, _, _)
get_tag_from_char_index(char_start, char_end, ents) ==
    IF ents = <<>> THEN NoTag
    ELSE IF Head(ents).start <= char_start /\ Head(ents).end >= char_end
         THEN Head(ents).tag
         ELSE get_tag_from_char_index(char_start, char_end, Tail(ents))

(***************************************************************************)
(* The tokenizer nlp_model_fr is an external model. Its results are        *)
(* sequences of tokens [i, idx, len] (token.i, token.idx, len(token.text)) *)
(* that are non-empty, in text order, non-overlapping, made either of      *)
(* whitespace only or of no whitespace at all, and that cover every        *)
(* non-whitespace character of the text.                                   *)
(***************************************************************************)
TokEnd(t) == t.idx + t.len

IsTokenization(text, toks) ==
    /\ \A k \in 1..Len(toks) :
          /\ toks[k].i = k - 1
          /\ toks[k].len >= 1
          /\ toks[k].idx >= 0
          /\ TokEnd(toks[k]) <= Len(text)
          /\ \A c, d \in toks[k].idx .. TokEnd(toks[k]) - 1 :
                (text[c + 1] = " ") <=> (text[d + 1] = " ")
    /\ \A k \in 1..Len(toks) - 1 : TokEnd(toks[k]) <= toks[k + 1].idx
    /\ \A c \in 0..Len(text) - 1 :
          text[c + 1] # " " =>
             \E k \in 1..Len(toks) : toks[k].idx <= c /\ c < TokEnd(toks[k])

\* marks[c]: "B" a token begins at offset c-1, "I" it continues, "O" no token
RECURSIVE TokensOfMarks(_, _, _)
TokensOfMarks(marks, c, acc) ==
    IF c > Len(marks) THEN acc
    ELSE IF marks[c] = "B"
         THEN TokensOfMarks(marks, c + 1,
                 Append(acc, [i |-> Len(acc), idx |-> c - 1, len |-> 1]))
         ELSE IF marks[c] = "I"
              THEN TokensOfMarks(marks, c + 1,
                      [acc EXCEPT ![Len(acc)].len = @ + 1])
              ELSE TokensOfMarks(marks, c + 1, acc)

Tokenizations(text) ==
    LET n == Len(text)
        ok(m) == /\ \A c \in 1..n : m[c] = "I" => c > 1 /\ m[c - 1] # "O"
                 /\ Cardinality({c \in 1..n : m[c] = "B"}) <= MaxTokens
        cand == {TokensOfMarks(m, 1, <<>>) : m \in {x \in [1..n -> {"B", "I", "O"}] : ok(x)}}
    IN  {toks \in cand : IsTokenization(text, toks)}

(***************************************************************************)
(* One iteration of `for token in doc` on the merger state                 *)
(* m = [entities, entity, inside_entity]; the Python dict {} is the        *)
(* record EmptyEntity.                                                     *)
(***************************************************************************)
EmptyEntity == [label |-> NoTag, chunks |-> <<>>]

MergeInit == [entities |-> <<>>, entity |-> EmptyEntity, inside_entity |-> FALSE]

\* MergeToken with the label comparison inverted: a token with the label of
\* the open entity closes it, a token with another label is added to it
MergeTokenInverted(m, token, ner_label) ==
    IF m.inside_entity
    THEN IF ner_label = NoTag
         THEN [entities |-> Append(m.entities, m.entity),
               entity |-> EmptyEntity,
               inside_entity |-> FALSE]
         ELSE IF m.entity.label # ner_label
              THEN [m EXCEPT !.entity.chunks = Append(@, token)]
              ELSE [m EXCEPT !.entities = Append(@, m.entity),
                             !.entity = [label |-> ner_label, chunks |-> <<token>>]]
    ELSE IF ner_label # NoTag
         THEN [m EXCEPT !.entity = [label |-> ner_label, chunks |-> <<token>>],
                        !.inside_entity = TRUE]
         ELSE m

\* MergeToken without the label comparison: every labelled token met while
\* inside an entity is added to it
MergeTokenNoSplit(m, token, ner_label) ==
    IF m.inside_entity
    THEN IF ner_label = NoTag
         THEN [entities |-> Append(m.entities, m.entity),
               entity |-> EmptyEntity,
               inside_entity |-> FALSE]
         ELSE [m EXCEPT !.entity.chunks = Append(@, token)]
    ELSE IF ner_label # NoTag
         THEN [m EXCEPT !.entity = [label |-> ner_label, chunks |-> <<token>>],
                        !.inside_entity = TRUE]
         ELSE m

MergeToken(m, token, ner_label) ==
    IF m.inside_entity
    THEN IF ner_label = NoTag
         THEN [entities |-> Append(m.entities, m.entity),
               entity |-> EmptyEntity,
               inside_entity |-> FALSE]
         ELSE IF m.entity.label = ner_label
              THEN [m EXCEPT !.entity.chunks = Append(@, token)]
              ELSE [m EXCEPT !.entities = Append(@, m.entity),
                             !.entity = [label |-> ner_label, chunks |-> <<token>>]]
    ELSE IF ner_label # NoTag
         THEN [m EXCEPT !.entity = [label |-> ner_label, chunks |-> <<token>>],
                        !.inside_entity = TRUE]
         ELSE m

RECURSIVE MergeTokens(_, _, _)
MergeTokens(m, toks, chunks_) ==
    IF toks = <<>> THEN m
    ELSE LET token == Head(toks)
             ner_label == get_tag_from_char_index(token.idx, token.idx + token.len, chunks_)
         IN  MergeTokens(MergeToken(m, token, ner_label), Tail(toks), chunks_)

(***************************************************************************)
(* Conversion of the collected entities to token-index spans.              *)
(***************************************************************************)
\* SpacyEnt with the exclusive end one too far
SpacyEntEndTooFar(e) ==
    [start |-> e.chunks[1].i,
     end |-> e.chunks[Len(e.chunks)].i + 2,
     label |-> e.label]

\* SpacyEnt with the index of the last token as end, without the + 1
SpacyEntEndInclusive(e) ==
    [start |-> e.chunks[1].i,
     end |-> e.chunks[Len(e.chunks)].i,
     label |-> e.label]

SpacyEnt(e) ==
    [start |-> e.chunks[1].i,
     end |-> e.chunks[Len(e.chunks)].i + 1,
     label |-> e.label]

EntitiesToAdd(ents) == [k \in 1..Len(ents) |-> SpacyEnt(ents[k])]

(***************************************************************************)
(* State of one call of tei2spacy_simple.                                  *)
(***************************************************************************)
VARIABLES
    dpc,             \* position in tei2spacy_simple
    output_text,     \* the flattened text, a sequence of characters
    chunks,          \* dict (offset_start, offset_end) -> ner_tag
    tokens,          \* doc: the tokens of nlp_model_fr(output_text)
    tok_i,           \* number of tokens the loop `for token in doc` has consumed
    labels,          \* the ner_label computed for each consumed token
    entities,        \* list of closed entities
    entity,          \* entity under construction
    inside_entity,   \* flag
    entities_to_add, \* spans injected into doc.ents
    last_node        \* history: the child node the flattener handled last

dvars == <<dpc, output_text, chunks, tokens, tok_i, labels, entities, entity,
           inside_entity, entities_to_add, last_node>>

(***************************************************************************)
(* State of the notebook's batch run: the file system, the kernel's        *)
(* variables and the position of the run in the notebook.                  *)
(***************************************************************************)
VARIABLES
    ner_dir,                  \* corpus_basedir / 'NER': file name -> content
    store,                    \* the file at SPACY_CORPUS_SERIALIZED_PATH
    pc,                       \* the cell the run is at
    spacy_corpus,             \* DocBin: the sequence of its documents
    already_processed_files,  \* set of paths
    sampled_files,            \* set of paths
    acc,                      \* the list the comprehension of `docs` is building
    docs,                     \* list of documents
    add_i,                    \* iterations done of `for doc in docs`
    store_at_start,           \* history: the store when the run started
    to_disk_invoked,          \* history: to_disk was called in this run
    proc_failed,              \* history: tei2spacy_simple raised in this run
    run_listing,              \* history: the directory listing the run filtered
    prev_run                  \* history: the completed run right before this one

bvars == <<ner_dir, store, pc, spacy_corpus, already_processed_files, sampled_files,
           acc, docs, add_i, store_at_start, to_disk_invoked, proc_failed,
           run_listing, prev_run>>

(***************************************************************************)
(* A second kernel running the same notebook against the same store and    *)
(* the same corpus directory: its variables, as one record.                *)
(***************************************************************************)
VARIABLES
    run2                      \* pc, spacy_corpus, already_processed_files,
                              \* sampled_files, acc, docs, add_i of that kernel

vars == <<dvars, bvars, run2>>

Nodes == {[name |-> nm, text |-> tx] : nm \in NodeNames, tx \in SeqsUpTo(Chars, MaxNodeLen)}

IsAnnotation(node) == node.name = "persName" \/ node.name = "placeName"

NoNode == [name |-> "none", text |-> <<>>]

DocInit ==
    /\ dpc = "regs"
    /\ output_text = <<>>
    /\ chunks = <<>>
    /\ tokens = <<>>
    /\ tok_i = 0
    /\ labels = <<>>
    /\ entities = <<>>
    /\ entity = EmptyEntity
    /\ inside_entity = FALSE
    /\ entities_to_add = <<>>
    /\ last_node = NoNode

(***************************************************************************)
(* Paths. A Path is the sequence of its components; str(path) joins them   *)
(* with "/" and Path(s) splits at "/".                                     *)
(***************************************************************************)
NameOf == <<"f1.xml", "f2.xml", "f3.xml", "f4.xml">>
FileNames == {NameOf[k] : k \in 1..MaxFiles}

CORPUS_PATH == <<"..", "TheatreLFSV2-downloaded">>
NerDir == CORPUS_PATH \o <<"NER">>

RECURSIVE PathStr(_)
PathStr(p) ==
    IF Len(p) <= 1 THEN p ELSE <<Head(p), "/">> \o PathStr(Tail(p))

IsComponent(x) == x # "/"
PathOf(s) == SelectSeq(s, IsComponent)

(***************************************************************************)
(* Files of the corpus directory. A file either parses as XML and holds    *)
(* <reg> elements, or is not well-formed, in which case etree.parse raises *)
(* inside tei2spacy_simple (line 56).                                      *)
(***************************************************************************)
Node(nm, tx) == [name |-> nm, text |-> tx]
WellFormed(regs) == [malformed |-> FALSE, regs |-> regs]
Malformed == [malformed |-> TRUE, regs |-> <<>>]
FileContents ==
    {WellFormed(<< <<Node("persName", <<"a">>), Node("str", <<"a">>)>> >>),
     WellFormed(<< <<Node("str", <<"a">>)>> >>),
     Malformed}

\* Path(corpus_basedir / 'NER').iterdir()
Iterdir(dir) == {NerDir \o <<n>> : n \in DOMAIN dir}

ContentOf(dir, path) == dir[path[Len(path)]]

FlattenedText(content) == FlattenRegs(FlattenInit, content.regs).output_text

(***************************************************************************)
(* tei2spacy_simple on a well-formed file, toks being what nlp_model_fr    *)
(* returns for its flattened text: the Doc, as its user_data['path'], its  *)
(* number of tokens and its ents.                                          *)
(***************************************************************************)
tei2spacy_simple(tei_file_path, content, toks) ==
    LET st == FlattenRegs(FlattenInit, content.regs)
        m == MergeTokens(MergeInit, toks, st.chunks)
    IN  [path |-> PathStr(tei_file_path),
         n_tokens |-> Len(toks),
         ents |-> EntitiesToAdd(m.entities)]

(***************************************************************************)
(* The serialized corpus and the DocBin.                                   *)
(***************************************************************************)
NoStore == [state |-> "absent", docs |-> <<>>]

\* DocBin.add(doc)
DocBinAdd(corpus, doc) == Append(corpus, doc)

\* the already-processed set built from the stored strings, without Path(...)
AlreadyProcessedStr(corpus) == {corpus[k].path : k \in 1..Len(corpus)}

\* set([Path(doc.user_data['path']) for doc in spacy_corpus.get_docs(...)])
AlreadyProcessed(corpus) == {PathOf(corpus[k].path) : k \in 1..Len(corpus)}

\* set(Path(corpus_basedir / 'NER').iterdir()) - already_processed_files
FilterFiles(listing, already) == listing \ already

\* sample_files(dir, sample_size, exclude): a sample of the files not excluded
sample_size == 100
sample_files(listing, size, exclude) ==
    {S \in SUBSET (listing \ exclude) : Cardinality(S) <= size}

NoPrevRun == [valid |-> FALSE, listing |-> {}, store |-> NoStore]

Running == {"load", "already", "sample", "filter", "assert", "process", "add",
            "to_disk", "write"}

KernelReset ==
    /\ spacy_corpus' = <<>>
    /\ already_processed_files' = {}
    /\ sampled_files' = {}
    /\ acc' = <<>>
    /\ docs' = <<>>
    /\ add_i' = 0

\* the variables of a kernel that has not run a cell
Run2Idle ==
    [pc |-> "idle", spacy_corpus |-> <<>>, already_processed_files |-> {},
     sampled_files |-> {}, acc |-> <<>>, docs |-> <<>>, add_i |-> 0]

BatchIdle ==
    /\ run2 = Run2Idle
    /\ ner_dir = [n \in {} |-> Malformed]
    /\ store = NoStore
    /\ pc = "idle"
    /\ spacy_corpus = <<>>
    /\ already_processed_files = {}
    /\ sampled_files = {}
    /\ acc = <<>>
    /\ docs = <<>>
    /\ add_i = 0
    /\ store_at_start = NoStore
    /\ to_disk_invoked = FALSE
    /\ proc_failed = FALSE
    /\ run_listing = {}
    /\ prev_run = NoPrevRun

Init == DocInit /\ BatchIdle

\* a file is put into the corpus directory between two runs
AddFile ==
    /\ pc \notin Running
    /\ \E n \in FileNames, c \in FileContents :
          /\ n \notin DOMAIN ner_dir
          /\ ner_dir' = [x \in DOMAIN ner_dir \cup {n} |->
                            IF x = n THEN c ELSE ner_dir[x]]
    /\ UNCHANGED <<store, pc, spacy_corpus, already_processed_files, sampled_files,
                   acc, docs, add_i, store_at_start, to_disk_invoked, proc_failed,
                   run_listing, prev_run>>
    /\ UNCHANGED <<dvars, run2>>

\* the notebook is run from the top in a fresh kernel
StartRun ==
    /\ pc \notin Running
    /\ pc' = "load"
    /\ KernelReset
    /\ store_at_start' = store
    /\ to_disk_invoked' = FALSE
    /\ proc_failed' = FALSE
    /\ run_listing' = {}
    /\ prev_run' = IF pc = "done"
                   THEN [valid |-> TRUE, listing |-> run_listing, store |-> store]
                   ELSE NoPrevRun
    /\ UNCHANGED <<ner_dir, store>>
    /\ UNCHANGED <<dvars, run2>>

\* the load cell always starting from an empty DocBin
LoadCellFresh ==
    /\ pc = "load"
    /\ spacy_corpus' = <<>>
    /\ pc' = "already"
    /\ UNCHANGED <<ner_dir, store, already_processed_files, sampled_files, acc, docs,
                   add_i, store_at_start, to_disk_invoked, proc_failed, run_listing,
                   prev_run>>
    /\ UNCHANGED <<dvars, run2>>

\* if Path(...).exists(): DocBin(...).from_disk(...) else: DocBin(...)
LoadCell ==
    /\ pc = "load"
    /\ IF store.state = "absent"
       THEN spacy_corpus' = <<>> /\ pc' = "already"
       ELSE IF store.state = "complete"
            THEN spacy_corpus' = store.docs /\ pc' = "already"
            ELSE spacy_corpus' = spacy_corpus /\ pc' = "failed"
    /\ UNCHANGED <<ner_dir, store, already_processed_files, sampled_files, acc, docs,
                   add_i, store_at_start, to_disk_invoked, proc_failed, run_listing,
                   prev_run>>
    /\ UNCHANGED <<dvars, run2>>

\* the already-processed cell leaving the set empty
AlreadyCellStale ==
    /\ pc = "already"
    /\ already_processed_files' = {}
    /\ pc' = "sample"
    /\ UNCHANGED <<ner_dir, store, spacy_corpus, sampled_files, acc, docs, add_i,
                   store_at_start, to_disk_invoked, proc_failed, run_listing, prev_run>>
    /\ UNCHANGED <<dvars, run2>>

\* already_processed_files = set([...])
AlreadyCell ==
    /\ pc = "already"
    /\ already_processed_files' = AlreadyProcessed(spacy_corpus)
    /\ pc' = "sample"
    /\ UNCHANGED <<ner_dir, store, spacy_corpus, sampled_files, acc, docs, add_i,
                   store_at_start, to_disk_invoked, proc_failed, run_listing, prev_run>>
    /\ UNCHANGED <<dvars, run2>>

\* sampled_files = sample_files(Path(corpus_basedir / 'NER'), sample_size, ...)
SampleCell ==
    /\ pc = "sample"
    /\ sampled_files' \in sample_files(Iterdir(ner_dir), sample_size,
                                       already_processed_files)
    /\ pc' = "filter"
    /\ UNCHANGED <<ner_dir, store, spacy_corpus, already_processed_files, acc, docs,
                   add_i, store_at_start, to_disk_invoked, proc_failed, run_listing,
                   prev_run>>
    /\ UNCHANGED <<dvars, run2>>

\* sampled_files = set(Path(corpus_basedir / 'NER').iterdir()) - already_processed_files
FilterCell ==
    /\ pc = "filter"
    /\ sampled_files' = FilterFiles(Iterdir(ner_dir), already_processed_files)
    /\ run_listing' = Iterdir(ner_dir)
    /\ pc' = "assert"
    /\ UNCHANGED <<ner_dir, store, spacy_corpus, already_processed_files, acc, docs,
                   add_i, store_at_start, to_disk_invoked, proc_failed, prev_run>>
    /\ UNCHANGED <<dvars, run2>>

\* assert len(set(sampled_files) - already_processed_files) == len(sampled_files)
AssertCell ==
    /\ pc = "assert"
    /\ pc' = IF Cardinality(sampled_files \ already_processed_files)
                  = Cardinality(sampled_files)
             THEN "process" ELSE "failed"
    /\ UNCHANGED <<ner_dir, store, spacy_corpus, already_processed_files,
                   sampled_files, acc, docs, add_i, store_at_start, to_disk_invoked,
                   proc_failed, run_listing, prev_run>>
    /\ UNCHANGED <<dvars, run2>>

\* the files of sampled_files the comprehension has not reached yet
Pending == {f \in sampled_files : \A k \in 1..Len(acc) : acc[k].path # PathStr(f)}

\* the comprehension catching the exception and dropping the file
ProcessFileSkip ==
    /\ pc = "process"
    /\ \E file \in Pending :
          LET content == ContentOf(ner_dir, file)
          IN  IF content.malformed
              THEN /\ proc_failed' = TRUE
                   /\ sampled_files' = sampled_files \ {file}
                   /\ UNCHANGED <<pc, acc>>
              ELSE /\ \E toks \in Tokenizations(FlattenedText(content)) :
                         acc' = Append(acc, tei2spacy_simple(file, content, toks))
                   /\ UNCHANGED <<pc, proc_failed, sampled_files>>
    /\ UNCHANGED <<ner_dir, store, spacy_corpus, already_processed_files,
                   docs, add_i, store_at_start, to_disk_invoked,
                   run_listing, prev_run>>
    /\ UNCHANGED <<dvars, run2>>

\* the comprehension with a lenient parse only: a file that is not well-formed
\* yields a Doc like any other
ProcessFileLenient ==
    /\ pc = "process"
    /\ \E file \in Pending :
          LET content == ContentOf(ner_dir, file)
          IN  \E toks \in Tokenizations(FlattenedText(content)) :
                 acc' = Append(acc, tei2spacy_simple(file, content, toks))
    /\ UNCHANGED <<ner_dir, store, pc, spacy_corpus, already_processed_files,
                   sampled_files, docs, add_i, store_at_start, to_disk_invoked,
                   proc_failed, run_listing, prev_run>>
    /\ UNCHANGED <<dvars, run2>>

\* docs = [tei2spacy_simple(file) for file in tqdm(sampled_files)]: one file.
\* An exception of tei2spacy_simple leaves the cell, and ends the run.
ProcessFile ==
    /\ pc = "process"
    /\ \E file \in Pending :
          LET content == ContentOf(ner_dir, file)
          IN  IF content.malformed
              THEN /\ pc' = "failed"
                   /\ proc_failed' = TRUE
                   /\ acc' = acc
              ELSE /\ \E toks \in Tokenizations(FlattenedText(content)) :
                         acc' = Append(acc, tei2spacy_simple(file, content, toks))
                   /\ UNCHANGED <<pc, proc_failed>>
    /\ UNCHANGED <<ner_dir, store, spacy_corpus, already_processed_files,
                   sampled_files, docs, add_i, store_at_start, to_disk_invoked,
                   run_listing, prev_run>>
    /\ UNCHANGED <<dvars, run2>>

\* the comprehension is exhausted: docs is bound
ProcessDone ==
    /\ pc = "process"
    /\ Pending = {}
    /\ docs' = acc
    /\ pc' = "add"
    /\ UNCHANGED <<ner_dir, store, spacy_corpus, already_processed_files,
                   sampled_files, acc, add_i, store_at_start, to_disk_invoked,
                   proc_failed, run_listing, prev_run>>
    /\ UNCHANGED <<dvars, run2>>

\* the add loop saving the corpus after each document
AddDocAndSave ==
    /\ pc = "add"
    /\ add_i < Len(docs)
    /\ spacy_corpus' = DocBinAdd(spacy_corpus, docs[add_i + 1])
    /\ store' = [state |-> "complete", docs |-> spacy_corpus']
    /\ add_i' = add_i + 1
    /\ UNCHANGED <<ner_dir, pc, already_processed_files, sampled_files, acc,
                   docs, store_at_start, to_disk_invoked, proc_failed, run_listing,
                   prev_run>>
    /\ UNCHANGED <<dvars, run2>>

\* for doc in docs: spacy_corpus.add(doc), one iteration
AddDoc ==
    /\ pc = "add"
    /\ add_i < Len(docs)
    /\ spacy_corpus' = DocBinAdd(spacy_corpus, docs[add_i + 1])
    /\ add_i' = add_i + 1
    /\ UNCHANGED <<ner_dir, store, pc, already_processed_files, sampled_files, acc,
                   docs, store_at_start, to_disk_invoked, proc_failed, run_listing,
                   prev_run>>
    /\ UNCHANGED <<dvars, run2>>

\* the loop of the add cell ends
AddDone ==
    /\ pc = "add"
    /\ add_i = Len(docs)
    /\ pc' = "to_disk"
    /\ UNCHANGED <<ner_dir, store, spacy_corpus, already_processed_files,
                   sampled_files, acc, docs, add_i, store_at_start, to_disk_invoked,
                   proc_failed, run_listing, prev_run>>
    /\ UNCHANGED <<dvars, run2>>

\* spacy_corpus.to_disk(path): DocBin.to_disk opens the path with mode "wb",
\* which truncates the file,
ToDiskOpen ==
    /\ pc = "to_disk"
    /\ store' = [state |-> "truncated", docs |-> <<>>]
    /\ to_disk_invoked' = TRUE
    /\ pc' = "write"
    /\ UNCHANGED <<ner_dir, spacy_corpus, already_processed_files, sampled_files,
                   acc, docs, add_i, store_at_start, proc_failed, run_listing,
                   prev_run>>
    /\ UNCHANGED <<dvars, run2>>

\* a write that lands after the bytes another to_disk has written, keeping them
WriteOutcomesAppend(current, corpus) ==
    {[state |-> "complete", docs |-> current.docs \o corpus]}

\* file_.write(self.to_bytes()) on the file this to_disk opened.  If nothing
\* has been written since the open, the file holds the corpus.  If another
\* to_disk has written to the path since (two descriptors on one file, each
\* writing from offset 0), the file holds the bytes of this corpus or a mix
\* of both writes that from_disk cannot read.
WriteOutcomes(current, corpus) ==
    IF current.state = "complete"
    THEN {[state |-> "complete", docs |-> corpus],
          [state |-> "truncated", docs |-> <<>>]}
    ELSE {[state |-> "complete", docs |-> corpus]}

\* the write persisting the documents of this batch only
ToDiskWriteNewOnly ==
    /\ pc = "write"
    /\ store' = [state |-> "complete", docs |-> docs]
    /\ pc' = "done"
    /\ UNCHANGED <<ner_dir, spacy_corpus, already_processed_files, sampled_files,
                   acc, docs, add_i, store_at_start, to_disk_invoked, proc_failed,
                   run_listing, prev_run>>
    /\ UNCHANGED <<dvars, run2>>

\* and then writes the bytes of the whole DocBin
ToDiskWrite ==
    /\ pc = "write"
    /\ store' \in WriteOutcomes(store, spacy_corpus)
    /\ pc' = "done"
    /\ UNCHANGED <<ner_dir, spacy_corpus, already_processed_files, sampled_files,
                   acc, docs, add_i, store_at_start, to_disk_invoked, proc_failed,
                   run_listing, prev_run>>
    /\ UNCHANGED <<dvars, run2>>

\* the run is interrupted (kernel interrupt, crash) at any point
Interrupt ==
    /\ pc \in Running
    /\ pc' = "interrupted"
    /\ UNCHANGED <<ner_dir, store, spacy_corpus, already_processed_files,
                   sampled_files, acc, docs, add_i, store_at_start, to_disk_invoked,
                   proc_failed, run_listing, prev_run>>
    /\ UNCHANGED <<dvars, run2>>

Next ==
    \/ AddFile \/ StartRun \/ LoadCell \/ AlreadyCell \/ SampleCell \/ FilterCell
    \/ AssertCell \/ ProcessFile \/ ProcessDone \/ AddDoc \/ AddDone
    \/ ToDiskOpen \/ ToDiskWrite \/ Interrupt

Spec == Init /\ [][Next]_vars

(***************************************************************************)
(* The cells of the notebook as the second kernel runs them.               *)
(***************************************************************************)
k1vars == <<pc, spacy_corpus, already_processed_files, sampled_files, acc, docs,
            add_i, store_at_start, to_disk_invoked, proc_failed, run_listing,
            prev_run>>

\* the notebook is run from the top in the second kernel, once
StartRun2 ==
    /\ run2.pc = "idle"
    /\ run2' = [Run2Idle EXCEPT !.pc = "load"]
    /\ UNCHANGED <<ner_dir, store, k1vars, dvars>>

\* if Path(...).exists(): DocBin(...).from_disk(...) else: DocBin(...)
LoadCell2 ==
    /\ run2.pc = "load"
    /\ run2' = IF store.state = "absent"
               THEN [run2 EXCEPT !.spacy_corpus = <<>>, !.pc = "already"]
               ELSE IF store.state = "complete"
                    THEN [run2 EXCEPT !.spacy_corpus = store.docs, !.pc = "already"]
                    ELSE [run2 EXCEPT !.pc = "failed"]
    /\ UNCHANGED <<ner_dir, store, k1vars, dvars>>

\* already_processed_files = set([...])
AlreadyCell2 ==
    /\ run2.pc = "already"
    /\ run2' = [run2 EXCEPT
                   !.already_processed_files = AlreadyProcessed(run2.spacy_corpus),
                   !.pc = "sample"]
    /\ UNCHANGED <<ner_dir, store, k1vars, dvars>>

\* sampled_files = sample_files(Path(corpus_basedir / 'NER'), sample_size, ...)
SampleCell2 ==
    /\ run2.pc = "sample"
    /\ \E S \in sample_files(Iterdir(ner_dir), sample_size,
                              run2.already_processed_files) :
          run2' = [run2 EXCEPT !.sampled_files = S, !.pc = "filter"]
    /\ UNCHANGED <<ner_dir, store, k1vars, dvars>>

\* sampled_files = set(Path(corpus_basedir / 'NER').iterdir()) - already_processed_files
FilterCell2 ==
    /\ run2.pc = "filter"
    /\ run2' = [run2 EXCEPT
                   !.sampled_files = FilterFiles(Iterdir(ner_dir),
                                                 run2.already_processed_files),
                   !.pc = "assert"]
    /\ UNCHANGED <<ner_dir, store, k1vars, dvars>>

\* assert len(set(sampled_files) - already_processed_files) == len(sampled_files)
AssertCell2 ==
    /\ run2.pc = "assert"
    /\ run2' = [run2 EXCEPT !.pc =
                   IF Cardinality(run2.sampled_files \ run2.already_processed_files)
                        = Cardinality(run2.sampled_files)
                   THEN "process" ELSE "failed"]
    /\ UNCHANGED <<ner_dir, store, k1vars, dvars>>

\* the files of sampled_files the second kernel's comprehension has not reached
Pending2 ==
    {f \in run2.sampled_files :
        \A k \in 1..Len(run2.acc) : run2.acc[k].path # PathStr(f)}

\* docs = [tei2spacy_simple(file) for file in tqdm(sampled_files)]: one file
ProcessFile2 ==
    /\ run2.pc = "process"
    /\ \E file \in Pending2 :
          LET content == ContentOf(ner_dir, file)
          IN  IF content.malformed
              THEN run2' = [run2 EXCEPT !.pc = "failed"]
              ELSE \E toks \in Tokenizations(FlattenedText(content)) :
                      run2' = [run2 EXCEPT !.acc =
                                  Append(@, tei2spacy_simple(file, content, toks))]
    /\ UNCHANGED <<ner_dir, store, k1vars, dvars>>

\* the comprehension is exhausted: docs is bound
ProcessDone2 ==
    /\ run2.pc = "process"
    /\ Pending2 = {}
    /\ run2' = [run2 EXCEPT !.docs = run2.acc, !.pc = "add"]
    /\ UNCHANGED <<ner_dir, store, k1vars, dvars>>

\* for doc in docs: spacy_corpus.add(doc), one iteration
AddDoc2 ==
    /\ run2.pc = "add"
    /\ run2.add_i < Len(run2.docs)
    /\ run2' = [run2 EXCEPT
                   !.spacy_corpus = DocBinAdd(@, run2.docs[run2.add_i + 1]),
                   !.add_i = @ + 1]
    /\ UNCHANGED <<ner_dir, store, k1vars, dvars>>

\* the loop of the add cell ends
AddDone2 ==
    /\ run2.pc = "add"
    /\ run2.add_i = Len(run2.docs)
    /\ run2' = [run2 EXCEPT !.pc = "to_disk"]
    /\ UNCHANGED <<ner_dir, store, k1vars, dvars>>

\* spacy_corpus.to_disk(path): the open with mode "wb"
ToDiskOpen2 ==
    /\ run2.pc = "to_disk"
    /\ store' = [state |-> "truncated", docs |-> <<>>]
    /\ run2' = [run2 EXCEPT !.pc = "write"]
    /\ UNCHANGED <<ner_dir, k1vars, dvars>>

\* and the write of the bytes of the whole DocBin
ToDiskWrite2 ==
    /\ run2.pc = "write"
    /\ store' \in WriteOutcomes(store, run2.spacy_corpus)
    /\ run2' = [run2 EXCEPT !.pc = "done"]
    /\ UNCHANGED <<ner_dir, k1vars, dvars>>

\* the second kernel is interrupted at any point
Interrupt2 ==
    /\ run2.pc \in Running
    /\ run2' = [run2 EXCEPT !.pc = "interrupted"]
    /\ UNCHANGED <<ner_dir, store, k1vars, dvars>>

\* the first kernel runs the notebook once as well
StartRunOnce == pc = "idle" /\ StartRun

InitTwo == DocInit /\ BatchIdle

NextTwo ==
    \/ AddFile \/ StartRunOnce \/ LoadCell \/ AlreadyCell \/ SampleCell
    \/ FilterCell \/ AssertCell \/ ProcessFile \/ ProcessDone \/ AddDoc
    \/ AddDone \/ ToDiskOpen \/ ToDiskWrite \/ Interrupt
    \/ StartRun2 \/ LoadCell2 \/ AlreadyCell2 \/ SampleCell2 \/ FilterCell2
    \/ AssertCell2 \/ ProcessFile2 \/ ProcessDone2 \/ AddDoc2 \/ AddDone2
    \/ ToDiskOpen2 \/ ToDiskWrite2 \/ Interrupt2

SpecTwo == InitTwo /\ [][NextTwo]_vars

\* for elem in soup.findAll('reg'): next <reg>
BeginReg ==
    /\ dpc = "regs"
    /\ Len(output_text) < MaxTextLen
    /\ dpc' = "nodes"
    /\ UNCHANGED <<output_text, chunks, tokens, tok_i, labels, entities, entity,
                   inside_entity, entities_to_add>>
    /\ UNCHANGED <<last_node, bvars, run2>>

\* for node in elem.contents: one child node
FlattenStep ==
    /\ dpc = "nodes"
    /\ \E node \in Nodes :
          /\ Len(output_text) + Len(node.text) < MaxTextLen
          /\ IsAnnotation(node) => Len(chunks) < MaxChunks
          /\ LET st == FlattenNode([output_text |-> output_text, chunks |-> chunks], node)
             IN  /\ output_text' = st.output_text
                 /\ chunks' = st.chunks
          /\ last_node' = node
    /\ UNCHANGED <<dpc, tokens, tok_i, labels, entities, entity, inside_entity,
                   entities_to_add>>
    /\ UNCHANGED <<bvars, run2>>

\* output_text += " "
EndReg ==
    /\ dpc = "nodes"
    /\ LET st == FlattenEndReg([output_text |-> output_text, chunks |-> chunks])
       IN  /\ output_text' = st.output_text
           /\ chunks' = st.chunks
    /\ dpc' = "regs"
    /\ last_node' = NoNode
    /\ UNCHANGED <<tokens, tok_i, labels, entities, entity, inside_entity,
                   entities_to_add>>
    /\ UNCHANGED <<bvars, run2>>

\* doc = nlp_model_fr(output_text)
Tokenize ==
    /\ dpc = "regs"
    /\ \E toks \in Tokenizations(output_text) : tokens' = toks
    /\ dpc' = "project"
    /\ UNCHANGED <<output_text, chunks, tok_i, labels, entities, entity,
                   inside_entity, entities_to_add>>
    /\ UNCHANGED <<last_node, bvars, run2>>

\* one iteration of `for token in doc`
MergeStep ==
    /\ dpc = "project"
    /\ tok_i < Len(tokens)
    /\ LET token == tokens[tok_i + 1]
           ner_label == get_tag_from_char_index(token.idx, token.idx + token.len, chunks)
           m == MergeToken([entities |-> entities, entity |-> entity,
                            inside_entity |-> inside_entity], token, ner_label)
       IN  /\ entities' = m.entities
           /\ entity' = m.entity
           /\ inside_entity' = m.inside_entity
           /\ labels' = Append(labels, ner_label)
    /\ tok_i' = tok_i + 1
    /\ UNCHANGED <<dpc, output_text, chunks, tokens, entities_to_add>>
    /\ UNCHANGED <<last_node, bvars, run2>>

\* entities_to_add = [...]; doc.ents = [...]; return doc
Convert ==
    /\ dpc = "project"
    /\ tok_i = Len(tokens)
    /\ entities_to_add' = EntitiesToAdd(entities)
    \* `for entity in entities` rebinds the local `entity`: after the loop it
    \* is the last closed entity, or what it was if the loop had no iteration
    /\ entity' = IF entities = <<>> THEN entity ELSE entities[Len(entities)]
    /\ dpc' = "done"
    /\ UNCHANGED <<output_text, chunks, tokens, tok_i, labels, entities,
                   inside_entity>>
    /\ UNCHANGED <<last_node, bvars, run2>>

DocNext == BeginReg \/ FlattenStep \/ EndReg \/ Tokenize \/ MergeStep \/ Convert

InitDoc == DocInit /\ BatchIdle

SpecDoc == InitDoc /\ [][DocNext]_vars

(***************************************************************************)
(* Properties of tei2spacy_simple, checked under SpecDoc.                  *)
(***************************************************************************)
Categories == {"PER", "LOC"}

\* the interval iv contains the character range of token t
Contains(iv, t) == iv.start <= t.idx /\ iv.end >= t.idx + t.len

\* the maximal runs of consecutive equal category labels of a label sequence
MaximalRuns(ls) ==
    LET n == Len(ls)
    IN  {r \in [start : 0..n, end : 0..n, label : Categories] :
            /\ r.start < r.end
            /\ \A k \in r.start + 1 .. r.end : ls[k] = r.label
            /\ r.start = 0 \/ ls[r.start] # r.label
            /\ r.end = n \/ ls[r.end + 1] # r.label}

\* C1: when tei2spacy_simple returns, the emitted spans are exactly the
\* maximal runs of consecutive tokens with the same category, each emitted
\* once as [first index, last index + 1), the run reaching the last token
\* included.
C1_MaximalRuns ==
    dpc = "done" =>
        /\ Range(entities_to_add) = MaximalRuns(labels)
        /\ Len(entities_to_add) = Cardinality(MaximalRuns(labels))

\* C2: a token is labelled with the category of an interval if and only if
\* that interval contains the token's character range (interval.start <=
\* token.start and interval.end >= token.end); it is unlabelled otherwise.
C2_Containment ==
    \A k \in 1..Len(labels) :
        /\ \A j \in 1..Len(chunks) :
              Contains(chunks[j], tokens[k]) => labels[k] = chunks[j].tag
        /\ labels[k] # NoTag =>
              \E j \in 1..Len(chunks) :
                  Contains(chunks[j], tokens[k]) /\ chunks[j].tag = labels[k]

\* C2 witness: one token whose range equals an interval has been labelled
\* with its category and another token that sticks out of an interval by one
\* character has been left unlabelled.
C2_Witness ==
    /\ \E k \in 1..Len(labels), j \in 1..Len(chunks) :
          /\ chunks[j].start = tokens[k].idx
          /\ chunks[j].end = TokEnd(tokens[k])
          /\ labels[k] = chunks[j].tag
    /\ \E k \in 1..Len(labels), j \in 1..Len(chunks) :
          /\ chunks[j].start = tokens[k].idx
          /\ chunks[j].end = TokEnd(tokens[k]) - 1
          /\ chunks[j].start < chunks[j].end
          /\ labels[k] = NoTag

\* C10: every interval recorded by the flattener is non-empty.
C10_NoEmptyInterval ==
    \A j \in 1..Len(chunks) : chunks[j].start < chunks[j].end

(***************************************************************************)
(* Properties of the batch run, checked under Spec.                        *)
(***************************************************************************)
Paths(corpus) == {corpus[k].path : k \in 1..Len(corpus)}

NoDupPaths(corpus) ==
    \A i, j \in 1..Len(corpus) : i # j => corpus[i].path # corpus[j].path

\* print_corpus_summary: numbers of documents, entities and tokens
RECURSIVE EntityCount(_)
EntityCount(corpus) ==
    IF corpus = <<>> THEN 0 ELSE Len(Head(corpus).ents) + EntityCount(Tail(corpus))

RECURSIVE TokenCount(_)
TokenCount(corpus) ==
    IF corpus = <<>> THEN 0 ELSE Head(corpus).n_tokens + TokenCount(Tail(corpus))

CorpusSummary(corpus) ==
    [doc_count |-> Len(corpus),
     entity_count |-> EntityCount(corpus),
     token_count |-> TokenCount(corpus)]

\* C3: no two documents of the in-memory corpus, and no two documents of the
\* persisted store, share a source path, whatever the number of runs.
C3_PathUniqueness ==
    /\ NoDupPaths(spacy_corpus)
    /\ NoDupPaths(store.docs)

\* C3 witness: a run that loaded a non-empty store has completed after
\* appending new documents to it.
C3_Witness ==
    /\ pc = "done"
    /\ Len(store_at_start.docs) >= 1
    /\ Len(store.docs) > Len(store_at_start.docs)

\* C5: a run that completes right after a completed run over the same file
\* set appends no document and persists a corpus with the same source paths
\* and the same document, entity and token counts.
C5_Idempotent ==
    (pc = "done" /\ prev_run.valid /\ run_listing = prev_run.listing) =>
        /\ docs = <<>>
        /\ Paths(store.docs) = Paths(prev_run.store.docs)
        /\ CorpusSummary(store.docs) = CorpusSummary(prev_run.store.docs)

\* C5 witness: the second of two completed runs over the same non-empty file
\* set has persisted.
C5_Witness ==
    /\ pc = "done"
    /\ prev_run.valid
    /\ run_listing = prev_run.listing
    /\ Len(store.docs) >= 1
    /\ Cardinality(run_listing) = Len(store.docs)

\* C6: until to_disk is invoked in a run, the persisted store equals what it
\* was when the run started, interrupted or not; and that store is what a
\* run loads.
C6_NoChangeBeforePersist ==
    /\ ~to_disk_invoked => store = store_at_start
    /\ pc = "already" => spacy_corpus = store.docs

\* C6 witness: a run was interrupted after appending documents in memory and
\* before to_disk.
C6_Witness ==
    /\ pc = "interrupted"
    /\ ~to_disk_invoked
    /\ add_i >= 1
    /\ Len(spacy_corpus) > Len(store.docs)

\* C7: the store is at all times either what it was when the run started or
\* the complete new corpus, also when the run stops inside to_disk.
C7_AtomicPersist ==
    \/ store = store_at_start
    \/ store = [state |-> "complete", docs |-> spacy_corpus]

\* C8: once tei2spacy_simple has failed on a sampled document the run is
\* aborted: to_disk is not invoked, nothing of the batch is appended and the
\* store is what it was when the run started.
C8_FailFast ==
    proc_failed =>
        /\ pc = "failed"
        /\ ~to_disk_invoked
        /\ docs = <<>>
        /\ spacy_corpus = store_at_start.docs
        /\ store = store_at_start

\* C8 witness: the failure came after another document of the batch had been
\* processed.
C8_Witness ==
    /\ proc_failed
    /\ Len(acc) >= 1

\* C9 as stated: a malformed document is only skipped, the run goes on with
\* the other sampled documents and is not aborted.
C9_SkippedOnly ==
    proc_failed => pc # "failed"

\* C9 amended: a malformed document aborts the run; none of the documents
\* sampled in that run reaches the corpus or the store, and the path of a
\* malformed file is never in the corpus or the store, so that it is a
\* candidate of every later run.
C9_MalformedAborts ==
    /\ proc_failed =>
          /\ pc = "failed"
          /\ \A f \in sampled_files :
                PathStr(f) \notin Paths(spacy_corpus) \cup Paths(store.docs)
    /\ \A n \in DOMAIN ner_dir :
          ner_dir[n].malformed =>
             /\ PathStr(NerDir \o <<n>>) \notin Paths(spacy_corpus) \cup Paths(store.docs)
             /\ pc \in {"assert", "process"} => NerDir \o <<n>> \in sampled_files

\* C9 witness: the run was aborted by a malformed document while a well-formed
\* document was sampled with it, in a later run than the one that first met it.
C9_Witness ==
    /\ proc_failed
    /\ pc = "failed"
    /\ \E f \in sampled_files : ~ContentOf(ner_dir, f).malformed
    /\ store.state = "complete"

(***************************************************************************)
(* The add cell on its own, under SpecAdd: spacy_corpus.add(doc) applied   *)
(* to a corpus without duplicate paths and to a document, both drawn from  *)
(* the documents tei2spacy_simple can return.                              *)
(***************************************************************************)
SomeDocs ==
    UNION {{tei2spacy_simple(NerDir \o <<n>>, c, toks) :
                toks \in Tokenizations(FlattenedText(c))} :
           n \in FileNames, c \in {x \in FileContents : ~x.malformed}}

InitAdd ==
    /\ DocInit
    /\ run2 = Run2Idle
    /\ ner_dir = [n \in {} |-> Malformed]
    /\ store = NoStore
    /\ pc = "add"
    /\ spacy_corpus \in {c \in SeqsUpTo(SomeDocs, MaxFiles) : NoDupPaths(c)}
    /\ already_processed_files = AlreadyProcessed(spacy_corpus)
    /\ sampled_files = {}
    /\ acc = <<>>
    /\ docs \in {<<d>> : d \in SomeDocs}
    /\ add_i = 0
    /\ store_at_start = NoStore
    /\ to_disk_invoked = FALSE
    /\ proc_failed = FALSE
    /\ run_listing = {}
    /\ prev_run = NoPrevRun

NextAdd == AddDoc \/ AddDone

SpecAdd == InitAdd /\ [][NextAdd]_vars

\* C4: appending a document whose path is already in the corpus fails and
\* leaves the corpus unchanged.
C4_DuplicateRejected ==
    [][(pc = "add" /\ add_i < Len(docs)
            /\ docs[add_i + 1].path \in Paths(spacy_corpus))
        => (spacy_corpus' = spacy_corpus /\ pc' = "failed")]_vars

(***************************************************************************)
(* Further properties of tei2spacy_simple, checked under SpecDoc.          *)
(***************************************************************************)
\* C11: the emitted spans do not overlap, come in strictly increasing start
\* order, and no two consecutive spans have the same category while the
\* first ends where the second starts.
C11_SpansOrdered ==
    dpc = "done" =>
        \A k \in 1..Len(entities_to_add) - 1 :
            LET a == entities_to_add[k]
                b == entities_to_add[k + 1]
            IN  /\ a.start < b.start
                /\ a.end <= b.start
                /\ ~(a.label = b.label /\ a.end = b.start)

\* C11 witness: two spans of different categories, the second starting where
\* the first ends, have been emitted.
C11_Witness ==
    /\ dpc = "done"
    /\ Len(entities_to_add) >= 2
    /\ entities_to_add[1].end = entities_to_add[2].start
    /\ entities_to_add[1].label # entities_to_add[2].label

RECURSIVE SpanLengthSum(_)
SpanLengthSum(spans) ==
    IF spans = <<>> THEN 0
    ELSE (Head(spans).end - Head(spans).start) + SpanLengthSum(Tail(spans))

\* C12: the token lengths of the emitted spans add up to at most the number
\* of tokens of the document.
C12_SpanLengthBound ==
    dpc = "done" => SpanLengthSum(entities_to_add) <= Len(tokens)

\* C12 witness: a document with two emitted spans that cover all its tokens
\* but the last.
C12_Witness ==
    /\ dpc = "done"
    /\ Len(entities_to_add) = 2
    /\ SpanLengthSum(entities_to_add) = Len(tokens) - 1

\* C15: a step of the merger taken inside an entity of category c started at
\* token s, on token i: with another category c' it emits [s, i) with c and
\* is then inside an entity of c' whose first token is i; with the same
\* category it emits nothing and keeps s.
C15_CategoryChange ==
    [][(dpc = "project" /\ tok_i' = tok_i + 1 /\ inside_entity) =>
         LET L == labels'[tok_i + 1]
             i == tokens[tok_i + 1].i
             s == entity.chunks[1].i
         IN  /\ (L # NoTag /\ L # entity.label) =>
                    /\ Len(entities') = Len(entities) + 1
                    /\ SubSeq(entities', 1, Len(entities)) = entities
                    /\ SpacyEnt(entities'[Len(entities')])
                          = [start |-> s, end |-> i, label |-> entity.label]
                    /\ inside_entity'
                    /\ entity'.label = L
                    /\ entity'.chunks = <<tokens[tok_i + 1]>>
                    /\ entity'.chunks[1].i = i
             /\ L = entity.label =>
                    /\ entities' = entities
                    /\ inside_entity'
                    /\ entity'.label = entity.label
                    /\ entity'.chunks[1].i = s
                    /\ entity'.chunks = Append(entity.chunks, tokens[tok_i + 1])]_vars

\* C15 witness: the merger has just taken a step on a category change.
C15_Witness ==
    /\ dpc = "project"
    /\ tok_i >= 2
    /\ labels[tok_i] # NoTag
    /\ labels[tok_i - 1] # NoTag
    /\ labels[tok_i] # labels[tok_i - 1]
    /\ inside_entity
    /\ Len(entities) >= 1
    /\ entity.chunks[1].i = tok_i - 1

\* C17: every emitted span satisfies 0 <= start < end <= number of tokens.
C17_SpansInRange ==
    dpc = "done" =>
        \A k \in 1..Len(entities_to_add) :
            /\ 0 <= entities_to_add[k].start
            /\ entities_to_add[k].start < entities_to_add[k].end
            /\ entities_to_add[k].end <= Len(tokens)

\* C17 witness: a span of two tokens starting at the first token has been
\* handed over for a document of three tokens.
C17_Witness ==
    /\ dpc = "done"
    /\ Len(tokens) = 3
    /\ \E k \in 1..Len(entities_to_add) :
          entities_to_add[k].start = 0 /\ entities_to_add[k].end = 2

\* C16: through every step of the flattener the recorded intervals stay in
\* start order (two starts are equal only when the earlier interval is
\* empty) without overlapping and within the buffer; the interval an
\* annotation element records is the buffer slice holding that element's
\* text; a step that appends text (a node, the separator after a <reg>)
\* keeps the buffer written so far and the bounds of every recorded
\* interval; a node other than persName/placeName leaves the intervals as
\* they are.
C16_FlattenerIntervals ==
    [][(dpc \in {"regs", "nodes"} /\ dpc' \in {"regs", "nodes"}) =>
         /\ Len(output_text') >= Len(output_text)
         /\ SubSeq(output_text', 1, Len(output_text)) = output_text
         /\ Len(chunks') >= Len(chunks)
         /\ \A k \in 1..Len(chunks) :
               /\ chunks'[k].start = chunks[k].start
               /\ chunks'[k].end = chunks[k].end
         /\ ~IsAnnotation(last_node') =>
               /\ chunks' = chunks
               /\ last_node' # NoNode =>
                     output_text' = output_text \o last_node'.text
         /\ IsAnnotation(last_node') =>
               \E k \in 1..Len(chunks') :
                   /\ chunks'[k].start = Len(output_text)
                   /\ chunks'[k].end = Len(output_text')
                   /\ chunks'[k].tag \in Categories
                   /\ SubSeq(output_text', chunks'[k].start + 1, chunks'[k].end)
                         = last_node'.text
         /\ \A k \in 1..Len(chunks') :
               /\ 0 <= chunks'[k].start
               /\ chunks'[k].start <= chunks'[k].end
               /\ chunks'[k].end <= Len(output_text')
         /\ \A j, k \in 1..Len(chunks') :
               j < k => /\ chunks'[j].start <= chunks'[k].start
                        /\ chunks'[j].end <= chunks'[k].start]_vars

\* C16 witness: two intervals have been recorded in two <reg> elements, the
\* first one non-empty, with the separator appended after each.
C16_Witness ==
    /\ dpc = "regs"
    /\ Len(chunks) = 2
    /\ chunks[1].start < chunks[1].end
    /\ chunks[1].end < chunks[2].start
    /\ chunks[2].start < chunks[2].end
    /\ chunks[2].end < Len(output_text)

\* C13: the load cell never ends in an error: with no store at the path it
\* yields an empty corpus (no document, no entity, no token), and with a
\* store at the path it yields the corpus last persisted there.
C13_LoadYieldsPersisted ==
    [][(pc = "load" /\ pc' \notin {"load", "interrupted"}) =>
         /\ pc' = "already"
         /\ store.state = "absent" =>
               /\ spacy_corpus' = <<>>
               /\ Len(spacy_corpus') = 0
               /\ EntityCount(spacy_corpus') = 0
               /\ TokenCount(spacy_corpus') = 0
         /\ store.state # "absent" => spacy_corpus' = store.docs]_vars

\* C14: nothing is processed before the candidates have been restricted, and
\* no file whose path is in the corpus the run loaded is handed to
\* tei2spacy_simple (flattened, tokenized) or waits to be.
C14_RestrictBeforeProcess ==
    /\ pc \in {"load", "already", "sample", "filter", "assert"} =>
          acc = <<>> /\ ~proc_failed
    /\ \A k \in 1..Len(acc) : acc[k].path \notin Paths(store_at_start.docs)
    /\ pc = "process" =>
          \A f \in sampled_files : PathStr(f) \notin Paths(store_at_start.docs)

\* C14 witness: a run that loaded a non-empty corpus is processing and has
\* tokenized a document.
C14_Witness ==
    /\ pc = "process"
    /\ Len(acc) >= 1
    /\ Len(store_at_start.docs) >= 1
    /\ already_processed_files # {}

\* C19: when a run completes, the store it found at its start is a prefix of
\* the store it leaves: every document is still there, unchanged.
C19_StoreOnlyGrows ==
    pc = "done" =>
        /\ Len(store.docs) >= Len(store_at_start.docs)
        /\ SubSeq(store.docs, 1, Len(store_at_start.docs)) = store_at_start.docs

\* C19 witness: the second of two completed runs in sequence found a
\* document in the store and persisted one more.
C19_Witness ==
    /\ pc = "done"
    /\ prev_run.valid
    /\ Len(prev_run.store.docs) >= 1
    /\ Len(docs) >= 1
    /\ store.docs = prev_run.store.docs \o docs

\* C18: with two kernels running the notebook against the same store, their
\* cells interleaved in any order, the persisted store never holds two
\* documents with the same source path.
C18_InterleavedNoDuplicate == NoDupPaths(store.docs)

\* C18 witness: both kernels loaded the store before either persisted,
\* both processed the same file and both have persisted.
C18_Witness ==
    /\ pc = "done"
    /\ run2.pc = "done"
    /\ store_at_start.state = "absent"
    /\ Len(docs) >= 1
    /\ Len(run2.docs) >= 1
    /\ Len(run2.spacy_corpus) = Len(run2.docs)
    /\ docs[1].path = run2.docs[1].path
    /\ store.state = "complete"
    /\ Len(store.docs) >= 1

====
